---- MODULE Spec2Model ----
(***************************************************************************)
(* LocNet: the localization evaluation run (GenomeViz.loc_eval), the       *)
(* caption / colocalization-map clipping of the element processors         *)
(* (coco_element_processor, flickr_element_processor) and the phrase       *)
(* aggregation of caption_parser.                                          *)
(*                                                                         *)
(* Python lists are sequences; a Python position p (0-based) is the        *)
(* sequence position p + 1.  None stands for "no value".                   *)
(***************************************************************************)
EXTENDS Integers, Sequences, FiniteSets, TLC

\* ---------------------------------------------------------------- bounds
DatasetSize == 3
\* longest COCO caption, sentinels included
MaxCap == 4
\* most slots of a colocalization map list handed to an element processor
MaxSlots == 4
\* longest caption handed to caption_parser / longest Flickr annotation caption
MaxTokens == 2
\* most phrase groups of an index_list
MaxGroups == 2
\* most calls of an element processor on one element
MaxCalls == 2
\* lengths of one phrase group
GroupLens == {0, 1, 2}
\* examples of the dataset a loader is built over
LoaderSize == 3
\* largest batch_size of a loader
MaxBatch == 2
\* most indexed accesses of one GenomeViz object
MaxGets == 2
\* most fetch-and-process steps on one batch
MaxSteps == 2
\* indices of the batch the element processors work on
BatchIdx == {0, 1}
\* caption lengths of the loader's dataset
CapLens == {9, 10}

\* ------------------------------------------------------------- constants
\* loc_eval prints a progress line when index % 100 == 0
PrintEvery == 100

None == "None"

VARIABLES
  \* GenomeViz object and one loc_eval call
  eval_mode,    \* self.eval_mode
  dataset,      \* self.dataset: what fetching/aligning/scoring each index does
  last,         \* argument of loc_eval
  index,        \* loop variable of loc_eval
  score_list,   \* local list of loc_eval
  score,        \* score of the example in progress
  pc,           \* position of loc_eval
  printed,      \* lines written by print(index, "--->", score, mean)
  fetched,      \* indices handed to self.dataset[...], in call order
  ret,          \* <<value returned by loc_eval>>, empty while there is none
  err           \* exception that left loc_eval, None while there is none

evalVars == <<eval_mode, dataset, last, index, score_list, score, pc,
              printed, fetched, ret, err>>

VARIABLES
  \* one element and the element processor applied to it
  processor,    \* "coco": coco_element_processor, "flickr": flickr_element_processor
  parse_mode,   \* parse_mode argument of flickr_element_processor
  caption_data, \* data[element['caption']]: the Flickr annotation of the element
  element,      \* the dict built by fetch_data; its lists are changed in place
  arg,          \* the element as it was handed to the first call
  clipped,      \* <<caption, coloc_map>> right after the clipping lines, else empty
  epc,          \* "ready", "returned" or "raised"
  eerr,         \* exception that left the processor
  calls         \* calls made so far

clipVars == <<processor, parse_mode, caption_data, element, arg, clipped, epc, eerr, calls>>

VARIABLES
  \* one call of caption_parser
  tok_caption,  \* argument
  coloc_maps,   \* argument
  index_list,   \* argument
  parsed,       \* <<[parsed_caption, parsed_coloc_maps]>> once returned
  ppc           \* "ready", "returned" or "raised"

parserVars == <<tok_caption, coloc_maps, index_list, parsed, ppc>>

VARIABLES
  \* one data loader built by get_loader_coco / get_loader_flickr
  pad_caption,      \* dataset.pad_caption
  batch_size,       \* dataset.batch_size
  caption_lengths,  \* caption length of every dataset index
  indices,          \* indices handed to the sampler
  sampler,          \* what the sampler has still to yield, in its order
  batch,            \* batch the BatchSampler is filling
  batches,          \* batches the BatchSampler has yielded
  lpc               \* "build", "iter", "batching" or "done"

loaderVars == <<pad_caption, batch_size, caption_lengths, indices, sampler,
                batch, batches, lpc>>

VARIABLES
  \* indexed access and display of the GenomeViz object
  self_element, \* <<self.element>>: the batch index it was made from; empty if unset
  self_score,   \* <<self.score>>, empty if unset
  gerr,         \* exception that left the last __getitem__, None if it returned
  gets,         \* __getitem__ calls made so far
  shown         \* what the last __call__ did

vizVars == <<self_element, self_score, gerr, gets, shown>>

VARIABLES
  \* one batch and the fetch-and-process steps made on it
  bproc,            \* "coco" or "flickr": the element processor in use
  bmode,            \* parse_mode handed to flickr_element_processor
  data,             \* Flickr annotations, by batch index
  captions,         \* captions argument of fetch_data (AnnIDs for Flickr)
  batch_coloc_maps, \* coloc_maps argument of fetch_data
  image_tensor,     \* image_tensor argument of fetch_data
  fresh,            \* the batch as it was before the first step
  result,           \* <<index and outcome of the last step>>
  steps             \* steps made so far

batchVars == <<bproc, bmode, data, captions, batch_coloc_maps, image_tensor,
               fresh, result, steps>>

restVars == <<loaderVars, vizVars, batchVars>>

vars == <<evalVars, clipVars, parserVars, restVars>>

\* ------------------------------------------------------------ arithmetic
RECURSIVE GCD(_, _)
GCD(a, b) == IF b = 0 THEN a ELSE GCD(b, a % b)

RECURSIVE Sum(_)
Sum(s) == IF s = <<>> THEN 0 ELSE Head(s) + Sum(Tail(s))

\* a rational number in lowest terms
Frac(n, d) == LET g == GCD(n, d) IN [num |-> n \div g, den |-> d \div g]

\* statistics.mean of a non-empty list of ints
mean(xs) == Frac(Sum(xs), Len(xs))

\* ------------------------------------------------------------ the dataset
\* What processing one dataset index does: the step that raises ("none" when
\* no step raises) and the value of hit_score_genome(element).
Items ==
  [fail : {"none"}, hit : {0, 1}] \cup [fail : {"fetch", "align", "score"}, hit : {0}]

\* ------------------------------------------------------------- loc_eval
IdleEval ==
  /\ eval_mode = FALSE
  /\ dataset = <<>>
  /\ last = 0
  /\ index = 0
  /\ score_list = <<>>
  /\ score = None
  /\ pc = "idle"
  /\ printed = <<>>
  /\ fetched = <<>>
  /\ ret = <<>>
  /\ err = None

IdleClip ==
  /\ processor = None
  /\ parse_mode = None
  /\ caption_data = <<>>
  /\ element = <<>>
  /\ arg = <<>>
  /\ clipped = <<>>
  /\ epc = "idle"
  /\ eerr = None
  /\ calls = 0

IdleParser ==
  /\ tok_caption = <<>>
  /\ coloc_maps = <<>>
  /\ index_list = <<>>
  /\ parsed = <<>>
  /\ ppc = "idle"

IdleLoader ==
  /\ pad_caption = FALSE
  /\ batch_size = 0
  /\ caption_lengths = <<>>
  /\ indices = <<>>
  /\ sampler = <<>>
  /\ batch = <<>>
  /\ batches = <<>>
  /\ lpc = "idle"

\* a GenomeViz object has no element and no score until __getitem__ sets them
IdleViz ==
  /\ self_element = <<>>
  /\ self_score = <<>>
  /\ gerr = None
  /\ gets = 0
  /\ shown = None

IdleBatch ==
  /\ bproc = None
  /\ bmode = None
  /\ data = <<>>
  /\ captions = <<>>
  /\ batch_coloc_maps = <<>>
  /\ image_tensor = <<>>
  /\ fresh = <<>>
  /\ result = <<>>
  /\ steps = 0

IdleRest ==
  /\ IdleLoader
  /\ IdleViz
  /\ IdleBatch

InitEval ==
  /\ IdleClip
  /\ IdleParser
  /\ IdleRest
  /\ eval_mode \in BOOLEAN
  /\ dataset \in [1..DatasetSize -> Items]
  /\ last \in 0..DatasetSize
  /\ index = 0
  /\ score_list = <<>>
  /\ score = None
  /\ pc = "call"
  /\ printed = <<>>
  /\ fetched = <<>>
  /\ ret = <<>>
  /\ err = None

Raise(e) ==
  /\ pc' = "raised"
  /\ err' = e

\* score_list = list()
LocEvalEnter ==
  /\ UNCHANGED <<clipVars, parserVars, restVars>>
  /\ pc = "call"
  /\ score_list' = <<>>
  /\ index' = 0
  /\ pc' = "loop"
  /\ UNCHANGED <<eval_mode, dataset, last, score, printed, fetched, ret, err>>

\* for index in tqdm(np.arange(last)): the next index, while there is one
LocEvalNext ==
  /\ UNCHANGED <<clipVars, parserVars, restVars>>
  /\ pc = "loop"
  /\ index < last
  /\ pc' = "fetch"
  /\ UNCHANGED <<eval_mode, dataset, last, index, score_list, score, printed,
                 fetched, ret, err>>

\* image_tensor, caption_glove, cap_id = self.dataset[index]
\* self.dataset is only set when eval_mode is true
LocEvalFetch ==
  /\ UNCHANGED <<clipVars, parserVars, restVars>>
  /\ pc = "fetch"
  /\ IF ~eval_mode
       THEN /\ Raise("AttributeError")
            /\ UNCHANGED fetched
       ELSE /\ fetched' = Append(fetched, index)
            /\ IF dataset[index + 1].fail = "fetch"
                 THEN Raise("FetchError")
                 ELSE pc' = "align" /\ UNCHANGED err
  /\ UNCHANGED <<eval_mode, dataset, last, index, score_list, score, printed, ret>>

\* unsqueeze, gen_coloc_maps_matchmap / gen_coloc_maps_phrase
LocEvalAlign ==
  /\ UNCHANGED <<clipVars, parserVars, restVars>>
  /\ pc = "align"
  /\ IF dataset[index + 1].fail = "align"
       THEN Raise("IncompatibleShapeError")
       ELSE pc' = "score" /\ UNCHANGED err
  /\ UNCHANGED <<eval_mode, dataset, last, index, score_list, score, printed,
                 fetched, ret>>

\* LocEvalScore, but an example that fails to score is skipped
LocEvalScoreSkipsFailure ==
  /\ UNCHANGED <<clipVars, parserVars, restVars>>
  /\ pc = "score"
  /\ IF dataset[index + 1].fail = "score"
       THEN /\ index' = index + 1
            /\ pc' = "loop"
            /\ UNCHANGED score
       ELSE /\ score' = dataset[index + 1].hit
            /\ pc' = "accumulate"
            /\ UNCHANGED index
  /\ UNCHANGED <<eval_mode, dataset, last, score_list, printed, fetched, ret, err>>

\* fetch_data_genome, genome_element_processor, int(hit_score_genome(element))
LocEvalScore ==
  /\ UNCHANGED <<clipVars, parserVars, restVars>>
  /\ pc = "score"
  /\ IF dataset[index + 1].fail = "score"
       THEN Raise("MissingAnnotationError") /\ UNCHANGED score
       ELSE /\ score' = dataset[index + 1].hit
            /\ pc' = "accumulate"
            /\ UNCHANGED err
  /\ UNCHANGED <<eval_mode, dataset, last, index, score_list, printed, fetched, ret>>

\* LocEvalAccumulate, but only a hit is appended
LocEvalAccumulateHitsOnly ==
  /\ UNCHANGED <<clipVars, parserVars, restVars>>
  /\ pc = "accumulate"
  /\ score_list' = IF score = 1 THEN Append(score_list, score) ELSE score_list
  /\ printed' = printed
  /\ index' = index + 1
  /\ score' = None
  /\ pc' = "loop"
  /\ UNCHANGED <<eval_mode, dataset, last, fetched, ret, err>>

\* score_list.append(score); the progress line; on to the next index
LocEvalAccumulate ==
  /\ UNCHANGED <<clipVars, parserVars, restVars>>
  /\ pc = "accumulate"
  /\ score_list' = Append(score_list, score)
  /\ printed' = IF index % PrintEvery = 0
                  THEN Append(printed, [index |-> index, score |-> score,
                                        mean |-> mean(score_list')])
                  ELSE printed
  /\ index' = index + 1
  /\ score' = None
  /\ pc' = "loop"
  /\ UNCHANGED <<eval_mode, dataset, last, fetched, ret, err>>

\* return score_list, mean(score_list)
LocEvalReturn ==
  /\ UNCHANGED <<clipVars, parserVars, restVars>>
  /\ pc = "loop"
  /\ ~(index < last)
  /\ IF score_list = <<>>
       THEN Raise("StatisticsError") /\ UNCHANGED ret
       ELSE /\ ret' = <<[score_list |-> score_list, mean |-> mean(score_list)]>>
            /\ pc' = "done"
            /\ UNCHANGED err
  /\ UNCHANGED <<eval_mode, dataset, last, index, score_list, score, printed, fetched>>

NextEval ==
  \/ LocEvalEnter
  \/ LocEvalNext
  \/ LocEvalFetch
  \/ LocEvalAlign
  \/ LocEvalScore
  \/ LocEvalAccumulate
  \/ LocEvalReturn

SpecEval == InitEval /\ [][NextEval]_vars

\* ------------------------------------------------------- caption_parser
Words == {"a", "dog"}

\* token maps: a map is the sequence of its cells
MapVals == {<<0, 2>>, <<1, 0>>}

Min(a, b) == IF a < b THEN a ELSE b

\* phrase groups over a caption of n tokens: lists of positions 0..n-1
Groups(n) == UNION {[1..l -> 0..(n - 1)] : l \in GroupLens}

IndexLists(n) == UNION {[1..g -> Groups(n)] : g \in 0..MaxGroups}

\* the scalar nan that numpy gives for the mean of no maps: a frame without
\* cells
NaN == <<>>

\* MeanMap, but the cells are summed and not divided
SumMap(new_coloc_map) ==
  IF new_coloc_map = <<>>
    THEN NaN
    ELSE [c \in 1..Len(new_coloc_map[1]) |->
            Frac(Sum([i \in 1..Len(new_coloc_map) |-> new_coloc_map[i][c]]), 1)]

\* np.array(new_coloc_map).mean(axis=0): the cell-by-cell mean of the maps of
\* one group
MeanMap(new_coloc_map) ==
  IF new_coloc_map = <<>>
    THEN NaN
    ELSE [c \in 1..Len(new_coloc_map[1]) |->
            Frac(Sum([i \in 1..Len(new_coloc_map) |-> new_coloc_map[i][c]]),
                 Len(new_coloc_map))]

\* the inner loop of caption_parser: the tokens of one group
NewWordToken(tok, position) ==
  [i \in 1..Len(position) |-> tok[position[i] + 1]]

\* the inner loop of caption_parser: the maps of one group
NewColocMap(maps, position) ==
  [i \in 1..Len(position) |-> maps[position[i] + 1]]

\* tok_caption[index] or coloc_maps[index] raises IndexError
OutOfRange(tok, maps, idx_list) ==
  \E k \in 1..Len(idx_list) : \E i \in 1..Len(idx_list[k]) :
    idx_list[k][i] >= Len(tok) \/ idx_list[k][i] >= Len(maps)

\* CaptionParser, but a group without positions is skipped
CaptionParserSkipsEmpty(tok, maps, idx_list) ==
  LET groups == SelectSeq(idx_list, LAMBDA g : g # <<>>) IN
  IF OutOfRange(tok, maps, idx_list)
    THEN [raised |-> TRUE, parsed_caption |-> <<>>, parsed_coloc_maps |-> <<>>]
    ELSE [raised |-> FALSE,
          parsed_caption |->
            [k \in 1..Len(groups) |-> NewWordToken(tok, groups[k])],
          parsed_coloc_maps |->
            [k \in 1..Len(groups) |-> MeanMap(NewColocMap(maps, groups[k]))]]

\* caption_parser(tok_caption, coloc_maps, index_list)
CaptionParser(tok, maps, idx_list) ==
  IF OutOfRange(tok, maps, idx_list)
    THEN [raised |-> TRUE, parsed_caption |-> <<>>, parsed_coloc_maps |-> <<>>]
    ELSE [raised |-> FALSE,
          parsed_caption |->
            [k \in 1..Len(idx_list) |-> NewWordToken(tok, idx_list[k])],
          parsed_coloc_maps |->
            [k \in 1..Len(idx_list) |-> MeanMap(NewColocMap(maps, idx_list[k]))]]

InitParser ==
  /\ IdleEval
  /\ IdleClip
  /\ IdleRest
  /\ \E n \in 0..MaxTokens :
       /\ tok_caption \in [1..n -> Words]
       /\ \E m \in 0..n : coloc_maps \in [1..m -> MapVals]
       /\ index_list \in IndexLists(n)
  /\ parsed = <<>>
  /\ ppc = "ready"

CaptionParserCall ==
  /\ ppc = "ready"
  /\ LET r == CaptionParser(tok_caption, coloc_maps, index_list) IN
       IF r.raised
         THEN ppc' = "raised" /\ UNCHANGED parsed
         ELSE /\ ppc' = "returned"
              /\ parsed' = <<[parsed_caption |-> r.parsed_caption,
                              parsed_coloc_maps |-> r.parsed_coloc_maps]>>
  /\ UNCHANGED <<tok_caption, coloc_maps, index_list>>
  /\ UNCHANGED <<evalVars, clipVars, restVars>>

NextParser == CaptionParserCall

SpecParser == InitParser /\ [][NextParser]_vars

\* --------------------------------------------------- element processors
StartWord == "<start>"
EndWord == "<end>"
AnnID == "AnnID"

\* slot k of a colocalization map list: every slot holds a different map
SlotMap(k) == <<k, k * k>>

Matchmap(m) == [k \in 1..m |-> SlotMap(k)]

\* COCO captions of l tokens: the start word, then words and end words
CocoCaptions(l) ==
  {<<StartWord>> \o body : body \in [1..(l - 1) -> Words \cup {EndWord}]}

\* cv2.resize(frame, dsize=(224, 224))
Resize(frame) == [mask |-> frame, dsize |-> <<224, 224>>]

\* IndexOfEnd, but the last end word is found
IndexOfLastEnd(caption) ==
  CHOOSE i \in 1..Len(caption) :
    caption[i] = EndWord /\ \A j \in (i + 1)..Len(caption) : caption[j] # EndWord

\* caption.index('<end>'), as a sequence position
IndexOfEnd(caption) ==
  CHOOSE i \in 1..Len(caption) :
    caption[i] = EndWord /\ \A j \in 1..(i - 1) : caption[j] # EndWord

\* DelFrom, but the entry at start is kept
DelAfter(lst, start) == SubSeq(lst, 1, Min(start + 1, Len(lst)))

\* del lst[start:] for a Python position start
DelFrom(lst, start) == SubSeq(lst, 1, Min(start, Len(lst)))

Outcome(status, e, el, cl) ==
  [status |-> status, err |-> e, element |-> el, clipped |-> cl]

\* coloc_map_processor: np.stack of the resized frames; it raises on an
\* empty list and on a frame that is the scalar nan
ColocMapProcessor(coloc_map) ==
  IF coloc_map = <<>>
    THEN [raised |-> TRUE, err |-> "ValueError", mask_list |-> <<>>]
    ELSE IF \E k \in 1..Len(coloc_map) : coloc_map[k] = NaN
      THEN [raised |-> TRUE, err |-> "cv2.error", mask_list |-> <<>>]
      ELSE [raised |-> FALSE, err |-> None,
            mask_list |-> [k \in 1..Len(coloc_map) |-> Resize(coloc_map[k])]]

\* coco_element_processor(element): what it does to the element
CocoElementProcessorOutcome(el) ==
  IF \A i \in 1..Len(el.caption) : el.caption[i] # EndWord
    THEN Outcome("raised", "ValueError", el, <<>>)
  ELSE
  LET start == IndexOfEnd(el.caption) - 1
      cap1  == DelFrom(el.caption, start)
  IN
  IF el.processed
    THEN Outcome("raised", "ValueError", [el EXCEPT !.caption = cap1], <<>>)
  ELSE
  LET cm1 == DelFrom(el.coloc_map, start) IN
  IF cap1 = <<>>
    THEN Outcome("raised", "IndexError",
                 [el EXCEPT !.caption = cap1, !.coloc_map = cm1], <<>>)
  ELSE
  LET cap2 == Tail(cap1) IN
  IF cm1 = <<>>
    THEN Outcome("raised", "IndexError",
                 [el EXCEPT !.caption = cap2, !.coloc_map = cm1], <<>>)
  ELSE
  LET cm2 == Tail(cm1)
      cl  == <<[caption |-> cap2, coloc_map |-> cm2]>>
      r   == ColocMapProcessor(cm2)
  IN
  IF r.raised
    THEN Outcome("raised", r.err,
                 [el EXCEPT !.caption = cap2, !.coloc_map = cm2], cl)
    ELSE Outcome("returned", None,
                 [caption |-> cap2, coloc_map |-> r.mask_list,
                  image |-> "numpy", processed |-> TRUE], cl)

\* flickr_element_processor(element, parse_mode, data): what it does to the
\* element; d is caption_data = data[element['caption']].  A processed
\* element holds a caption list, which is no key of data
FlickrElementProcessorOutcome(el, mode, d) ==
  IF el.processed
    THEN Outcome("raised", "TypeError", el, <<>>)
  ELSE
  LET caption == IF mode = "phrase" THEN d.parsed_caption ELSE d.tok_sent
      actual_length == Len(caption)
      cm1 == DelFrom(el.coloc_map, actual_length + 1)
  IN
  IF cm1 = <<>>
    THEN Outcome("raised", "IndexError", [el EXCEPT !.coloc_map = cm1], <<>>)
  ELSE
  LET cm2 == Tail(cm1)
      cl  == <<[caption |-> caption, coloc_map |-> cm2]>>
      p   == IF mode # "phrase"
               THEN CaptionParser(caption, cm2, d.caption_index)
               ELSE [raised |-> FALSE, parsed_caption |-> caption,
                     parsed_coloc_maps |-> cm2]
  IN
  IF p.raised
    THEN Outcome("raised", "IndexError", [el EXCEPT !.coloc_map = cm2], cl)
  ELSE
  LET r == ColocMapProcessor(p.parsed_coloc_maps) IN
  IF r.raised
    THEN Outcome("raised", r.err, [el EXCEPT !.coloc_map = cm2], cl)
    ELSE Outcome("returned", None,
                 [caption |-> p.parsed_caption, coloc_map |-> r.mask_list,
                  image |-> "numpy", processed |-> TRUE], cl)

\* a Flickr annotation: the tokenized sentence, its phrase groups and the
\* phrases they spell
Annotation(t, g) ==
  [tok_sent |-> t, caption_index |-> g,
   parsed_caption |-> [k \in 1..Len(g) |-> NewWordToken(t, g[k])]]

InitClip ==
  /\ IdleEval
  /\ IdleParser
  /\ IdleRest
  /\ \/ /\ processor = "coco"
        /\ parse_mode = None
        /\ caption_data = <<>>
        /\ \E l \in 1..MaxCap : \E c \in CocoCaptions(l) : \E m \in 0..MaxSlots :
             element = [caption |-> c, coloc_map |-> Matchmap(m),
                        image |-> "tensor", processed |-> FALSE]
     \/ /\ processor = "flickr"
        /\ parse_mode \in {"phrase", "matchmap"}
        /\ \E n \in 0..MaxTokens : \E t \in [1..n -> Words] :
             \E g \in IndexLists(n) : caption_data = Annotation(t, g)
        /\ \E m \in 0..MaxSlots :
             element = [caption |-> AnnID, coloc_map |-> Matchmap(m),
                        image |-> "tensor", processed |-> FALSE]
  /\ arg = element
  /\ clipped = <<>>
  /\ epc = "ready"
  /\ eerr = None
  /\ calls = 0

Apply(o) ==
  /\ element' = o.element
  /\ clipped' = o.clipped
  /\ epc' = o.status
  /\ eerr' = o.err
  /\ calls' = calls + 1
  /\ UNCHANGED <<processor, parse_mode, caption_data, arg>>
  /\ UNCHANGED <<evalVars, parserVars, restVars>>

CocoElementProcessor ==
  /\ processor = "coco"
  /\ epc \in {"ready", "returned"}
  /\ calls < MaxCalls
  /\ Apply(CocoElementProcessorOutcome(element))

FlickrElementProcessor ==
  /\ processor = "flickr"
  /\ epc \in {"ready", "returned"}
  /\ calls < MaxCalls
  /\ Apply(FlickrElementProcessorOutcome(element, parse_mode, caption_data))

NextClip ==
  \/ CocoElementProcessor
  \/ FlickrElementProcessor

SpecClip == InitClip /\ [][NextClip]_vars

\* ------------------------------------------------------------ data loader
\* the elements of a finite set of numbers, in increasing order
Sorted(S) ==
  CHOOSE q \in [1..Cardinality(S) -> S] :
    \A i, j \in 1..Cardinality(S) : i < j => q[i] < q[j]

\* the arrangements of the list q in every order
Orders(q) ==
  {[i \in 1..Len(q) |-> q[f[i]]] :
     f \in {g \in [1..Len(q) -> 1..Len(q)] :
              \A i, j \in 1..Len(q) : i # j => g[i] # g[j]}}

\* dataset indices whose caption has length len
Bucket(lengths, len) == {i \in 0..(Len(lengths) - 1) : lengths[i + 1] = len}

\* dataset.get_indices(): a caption length that some example has, then
\* batch_size indices of that length drawn without replacement, all of them
\* when there are fewer
GetIndices(lengths, size) ==
  UNION {{Sorted(S) : S \in {T \in SUBSET Bucket(lengths, len) :
                               Cardinality(T) = Min(size, Cardinality(Bucket(lengths, len)))}}
           : len \in {lengths[i] : i \in 1..Len(lengths)}}

InitLoader ==
  /\ IdleEval
  /\ IdleClip
  /\ IdleParser
  /\ pad_caption \in BOOLEAN
  /\ batch_size \in 1..MaxBatch
  /\ caption_lengths \in [1..LoaderSize -> CapLens]
  /\ indices = <<>>
  /\ sampler = <<>>
  /\ batch = <<>>
  /\ batches = <<>>
  /\ lpc = "build"
  /\ IdleViz
  /\ IdleBatch

\* if dataset.pad_caption: indices = dataset.get_indices() for a
\* SubsetRandomSampler; else the DataLoader shuffles the whole dataset
GetLoader ==
  /\ lpc = "build"
  /\ IF pad_caption
       THEN indices' \in GetIndices(caption_lengths, batch_size)
       ELSE indices' = [i \in 1..Len(caption_lengths) |-> i - 1]
  /\ lpc' = "iter"
  /\ UNCHANGED <<pad_caption, batch_size, caption_lengths, sampler, batch, batches>>
  /\ UNCHANGED <<evalVars, clipVars, parserVars, vizVars, batchVars>>

\* the sampler yields the indices in a random order
SamplerIter ==
  /\ lpc = "iter"
  /\ sampler' \in Orders(indices)
  /\ batch' = <<>>
  /\ lpc' = "batching"
  /\ UNCHANGED <<pad_caption, batch_size, caption_lengths, indices, batches>>
  /\ UNCHANGED <<evalVars, clipVars, parserVars, vizVars, batchVars>>

\* BatchSampler: the next index joins the batch, a full batch is yielded
BatchSamplerNext ==
  /\ lpc = "batching"
  /\ sampler # <<>>
  /\ sampler' = Tail(sampler)
  /\ LET filled == Append(batch, Head(sampler)) IN
       IF Len(filled) = batch_size
         THEN batches' = Append(batches, filled) /\ batch' = <<>>
         ELSE batch' = filled /\ UNCHANGED batches
  /\ UNCHANGED <<pad_caption, batch_size, caption_lengths, indices, lpc>>
  /\ UNCHANGED <<evalVars, clipVars, parserVars, vizVars, batchVars>>

\* BatchSamplerEnd, but with drop_last=True
BatchSamplerEndDropLast ==
  /\ lpc = "batching"
  /\ sampler = <<>>
  /\ batch' = <<>>
  /\ lpc' = "done"
  /\ UNCHANGED <<pad_caption, batch_size, caption_lengths, indices, sampler, batches>>
  /\ UNCHANGED <<evalVars, clipVars, parserVars, vizVars, batchVars>>

\* BatchSampler with drop_last=False: the short last batch is yielded too
BatchSamplerEnd ==
  /\ lpc = "batching"
  /\ sampler = <<>>
  /\ batches' = IF Len(batch) > 0 THEN Append(batches, batch) ELSE batches
  /\ batch' = <<>>
  /\ lpc' = "done"
  /\ UNCHANGED <<pad_caption, batch_size, caption_lengths, indices, sampler>>
  /\ UNCHANGED <<evalVars, clipVars, parserVars, vizVars, batchVars>>

NextLoader ==
  \/ GetLoader
  \/ SamplerIter
  \/ BatchSamplerNext
  \/ BatchSamplerEnd

SpecLoader == InitLoader /\ [][NextLoader]_vars

\* ------------------------------------------- GenomeViz indexed access
\* loc_eval is not running: the caller can make another call on the object
AtCaller == pc \in {"call", "done", "raised"}

\* GetItem, but without the assertion on eval_mode
GetItemNoAssert ==
  /\ AtCaller
  /\ gets < MaxGets
  /\ gets' = gets + 1
  /\ \E i \in 0..(DatasetSize - 1) :
       /\ self_element' = <<i>>
       /\ self_score' = <<dataset[i + 1].hit>>
       /\ gerr' = None
  /\ UNCHANGED <<shown, evalVars, clipVars, parserVars, loaderVars, batchVars>>

\* __getitem__(index): the assertion, then fetch_data_genome,
\* genome_element_processor into self.element, hit_score_genome into
\* self.score.  An example that cannot be processed raises before or after
\* self.element is assigned.
GetItem ==
  /\ AtCaller
  /\ gets < MaxGets
  /\ gets' = gets + 1
  /\ \E i \in 0..(DatasetSize - 1) :
       IF eval_mode
         THEN /\ gerr' = "AssertionError"
              /\ UNCHANGED <<self_element, self_score>>
         ELSE IF dataset[i + 1].fail # "none"
           THEN /\ gerr' = "Error"
                /\ self_element' \in {self_element, <<i>>}
                /\ UNCHANGED self_score
           ELSE /\ self_element' = <<i>>
                /\ self_score' = <<dataset[i + 1].hit>>
                /\ gerr' = None
  /\ UNCHANGED <<shown, evalVars, clipVars, parserVars, loaderVars, batchVars>>

\* __call__: shows self.element and prints self.score
VizCall ==
  /\ AtCaller
  /\ shown' = IF self_element = <<>> THEN "AttributeError" ELSE "plotted"
  /\ UNCHANGED <<self_element, self_score, gerr, gets>>
  /\ UNCHANGED <<evalVars, clipVars, parserVars, loaderVars, batchVars>>

NextViz ==
  \/ NextEval
  \/ GetItem
  \/ VizCall

SpecViz == InitEval /\ [][NextViz]_vars

\* ------------------------------------- fetch_data and the batch it reads
\* fetch_data(index, coloc_maps, image_tensor, captions): the element holds
\* the batch's own caption and map list of that index, not copies
FetchData(i) ==
  [caption |-> captions[i], coloc_map |-> batch_coloc_maps[i],
   image |-> image_tensor[i], processed |-> FALSE]

\* the caption list of the batch after a processor has worked on the element
\* el with outcome out: coco_element_processor deletes from it in place,
\* flickr_element_processor only reads an annotation id
CaptionListAfter(el, out) ==
  IF bproc = "coco"
    THEN IF out.clipped # <<>> THEN out.clipped[1].caption ELSE out.element.caption
    ELSE el.caption

\* the map list of the batch after the processor: both processors delete
\* from it in place; the resized stack is a new object
MapListAfter(el, out) ==
  IF out.status = "returned" THEN out.clipped[1].coloc_map ELSE out.element.coloc_map

\* the processor in use, applied to a fetched element of index i
ProcessElement(el, i) ==
  IF bproc = "coco"
    THEN CocoElementProcessorOutcome(el)
    ELSE FlickrElementProcessorOutcome(el, bmode, data[i])

\* one phrase group per token
TokenGroups(n) == [k \in 1..n |-> <<k - 1>>]

InitBatch ==
  /\ IdleEval
  /\ IdleClip
  /\ IdleParser
  /\ IdleLoader
  /\ IdleViz
  /\ \/ /\ bproc = "coco"
        /\ bmode = None
        /\ data = <<>>
        /\ \E l \in 1..MaxCap :
             /\ captions \in [BatchIdx -> CocoCaptions(l)]
             /\ batch_coloc_maps = [i \in BatchIdx |-> Matchmap(l)]
     \/ /\ bproc = "flickr"
        /\ bmode \in {"phrase", "matchmap"}
        /\ data \in [BatchIdx -> UNION {{Annotation(t, TokenGroups(n)) : t \in [1..n -> Words]}
                                         : n \in 0..MaxTokens}]
        /\ captions = [i \in BatchIdx |-> AnnID]
        /\ batch_coloc_maps = [i \in BatchIdx |-> Matchmap(MaxTokens + 2)]
  /\ image_tensor = [i \in BatchIdx |-> "tensor"]
  /\ fresh = [captions |-> captions, coloc_maps |-> batch_coloc_maps,
              image_tensor |-> image_tensor]
  /\ result = <<>>
  /\ steps = 0

\* element = fetch_data(index, ...) followed by the element processor
FetchAndProcess ==
  /\ steps < MaxSteps
  /\ steps' = steps + 1
  /\ \E i \in BatchIdx :
       LET el  == FetchData(i)
           out == ProcessElement(el, i)
       IN /\ captions' = [captions EXCEPT ![i] = CaptionListAfter(el, out)]
          /\ batch_coloc_maps' = [batch_coloc_maps EXCEPT ![i] = MapListAfter(el, out)]
          /\ result' = <<[index |-> i, status |-> out.status, err |-> out.err,
                          element |-> out.element]>>
  /\ UNCHANGED <<bproc, bmode, data, image_tensor, fresh>>
  /\ UNCHANGED <<evalVars, clipVars, parserVars, loaderVars, vizVars>>

NextBatch == FetchAndProcess

SpecBatch == InitBatch /\ [][NextBatch]_vars

\* ================================================================ claims
\* no example of the run 0..last-1 raises
NoFailure == \A i \in 1..last : dataset[i].fail = "none"

\* C1: loc_eval(last) with last >= 1 and no per-example failure visits the
\* dataset indices 0, 1, ..., last-1 exactly once each in increasing order and
\* returns a score list of length last whose i-th entry is the hit score of
\* dataset index i, together with the arithmetic mean of that list; at every
\* point in the loop the length of the score list is the number of examples
\* fully processed so far.
C1_LocEvalScoresEveryIndexInOrder ==
  (eval_mode /\ last >= 1 /\ NoFailure) =>
    /\ pc # "raised"
    /\ \A k \in 1..Len(fetched) : fetched[k] = k - 1
    /\ Len(fetched) <= last
    /\ pc = "loop" => Len(score_list) = Len(fetched)
    /\ pc \in {"align", "score", "accumulate"} => Len(score_list) = Len(fetched) - 1
    /\ \A i \in 1..Len(score_list) : score_list[i] = dataset[i].hit
    /\ pc = "done" =>
         /\ Len(fetched) = last
         /\ Len(ret) = 1
         /\ Len(ret[1].score_list) = last
         /\ \A i \in 1..last : ret[1].score_list[i] = dataset[i].hit
         /\ ret[1].mean.den > 0
         /\ ret[1].mean.num * last = ret[1].mean.den * Sum(ret[1].score_list)

\* a full run over a dataset with both hits and misses has returned
C1_Witness ==
  /\ pc = "done"
  /\ last = DatasetSize
  /\ Len(ret) = 1
  /\ \E i, j \in 1..last : ret[1].score_list[i] = 1 /\ ret[1].score_list[j] = 0

\* C2: an error raised while fetching, aligning or scoring one example is
\* not swallowed: the run aborts at that step, the error reaches the caller,
\* no later index is processed and no score list or mean is returned.
C2_ErrorAbortsRun ==
  /\ \A k \in 1..Len(fetched) :
       LET item == dataset[fetched[k] + 1] IN
         item.fail # "none" =>
           /\ k = Len(fetched)
           /\ Len(score_list) = fetched[k]
           /\ ret = <<>>
           /\ item.fail = "fetch" => pc = "raised"
           /\ item.fail = "align" => pc \in {"align", "raised"}
           /\ item.fail = "score" => pc \in {"align", "score", "raised"}
  /\ pc = "raised" => (err # None /\ ret = <<>>)
  /\ pc = "done" => (err = None /\ NoFailure)

\* the second example failed to score while a third was still to come
C2_Witness ==
  /\ pc = "raised"
  /\ err = "MissingAnnotationError"
  /\ Len(score_list) = 1
  /\ last = 3
  /\ fetched = <<0, 1>>

\* C3: loc_eval(0) returns an empty score list and a defined mean, without
\* raising.
C3_EmptyRunReturns ==
  (eval_mode /\ last = 0 /\ pc \notin {"call", "loop"}) =>
    /\ pc = "done"
    /\ Len(ret) = 1
    /\ ret[1].score_list = <<>>

\* the counts the run has written out: one per progress line (the index it
\* names plus one) and the length of a returned score list
CountsReported ==
  {printed[j].index + 1 : j \in 1..Len(printed)}
    \cup {Len(ret[j].score_list) : j \in 1..Len(ret)}

\* C4: when the run aborts because of a failure on example k it has still
\* reported the count k of examples scored before the failure.
C4_AbortReportsCount ==
  (eval_mode /\ pc = "raised" /\ err # "StatisticsError") =>
    Len(score_list) \in CountsReported

\* e is the sequence position of the first end word of caption c
FirstEndAt(c, e) ==
  /\ e \in 1..Len(c)
  /\ c[e] = EndWord
  /\ \A j \in 1..(e - 1) : c[j] # EndWord

\* C5: for every caption with the start word at position 0 and an end word
\* later, whose colocalization maps reach up to the end word, clip yields
\* exactly the tokens strictly between position 0 and the first end word, in
\* their order, and the maps at the same positions; caption and map list both
\* come out strictly shorter.
C5_ClipKeepsTokensBetweenSentinels ==
  (processor = "coco" /\ calls = 1) =>
    \A e \in 2..Len(arg.caption) :
      (/\ arg.caption[1] = StartWord
       /\ FirstEndAt(arg.caption, e)
       /\ Len(arg.coloc_map) >= e - 1) =>
        /\ Len(clipped) = 1
        /\ clipped[1].caption = [i \in 1..(e - 2) |-> arg.caption[i + 1]]
        /\ clipped[1].coloc_map = [i \in 1..(e - 2) |-> arg.coloc_map[i + 1]]
        /\ Len(clipped[1].caption) < Len(arg.caption)
        /\ Len(clipped[1].coloc_map) < Len(arg.coloc_map)
        /\ element.caption = clipped[1].caption
        /\ e > 2 =>
             /\ epc = "returned"
             /\ element.coloc_map = [i \in 1..(e - 2) |-> Resize(arg.coloc_map[i + 1])]

\* <start> a dog <end> with a 3-slot map list has been clipped to a dog and
\* two maps
C5_Witness ==
  /\ processor = "coco"
  /\ calls = 1
  /\ epc = "returned"
  /\ arg.caption = <<StartWord, "a", "dog", EndWord>>
  /\ Len(arg.coloc_map) = 3
  /\ element.caption = <<"a", "dog">>
  /\ Len(element.coloc_map) = 2

\* the caption whose length the clipping compares the map list with
CaptionToClip ==
  IF processor = "coco" THEN arg.caption
  ELSE IF parse_mode = "phrase" THEN caption_data.parsed_caption
  ELSE caption_data.tok_sent

\* the number of leading slots the clipping keeps before it drops slot 0:
\* those before the first end word (coco), the caption length plus one (flickr)
SlotsKept ==
  IF processor = "coco"
    THEN (CHOOSE e \in 1..Len(arg.caption) : FirstEndAt(arg.caption, e)) - 1
    ELSE Len(CaptionToClip) + 1

\* C6 as stated: after clipping, the number of caption entries equals the
\* number of token maps, for every caption / map list pair.
C6_ClippedCountsEqual ==
  (calls = 1 /\ Len(clipped) = 1) =>
    Len(clipped[1].caption) = Len(clipped[1].coloc_map)

\* C6 as amended: after clipping, the number of caption entries equals the
\* number of token maps whenever the map list has at least as many slots as
\* the clipping keeps; a shorter map list comes out one slot shorter than it
\* went in, with fewer maps than the caption has entries.
C6_ClippedCountsEqualWhenSlotsSuffice ==
  (calls = 1 /\ Len(clipped) = 1) =>
    /\ Len(clipped[1].caption) = SlotsKept - 1
    /\ Len(arg.coloc_map) >= SlotsKept =>
         Len(clipped[1].coloc_map) = Len(clipped[1].caption)
    /\ Len(arg.coloc_map) < SlotsKept =>
         /\ Len(clipped[1].coloc_map) = Len(arg.coloc_map) - 1
         /\ Len(clipped[1].coloc_map) < Len(clipped[1].caption)

\* a Flickr map list with more slots than the caption needs was clipped to
\* the caption's length
C6_Witness ==
  /\ processor = "flickr"
  /\ calls = 1
  /\ Len(clipped) = 1
  /\ Len(arg.coloc_map) = MaxSlots
  /\ Len(clipped[1].caption) = 2
  /\ Len(clipped[1].coloc_map) = 2

\* C7: when the caption contains no end word, clip does not raise: caption
\* and map list pass through with only position 0 removed.
C7_NoEndSentinelPassesThrough ==
  (/\ processor = "coco"
   /\ calls = 1
   /\ \A i \in 1..Len(arg.caption) : arg.caption[i] # EndWord
   /\ Len(arg.coloc_map) >= 2) =>
    /\ epc = "returned"
    /\ element.caption = Tail(arg.caption)
    /\ Len(element.coloc_map) = Len(arg.coloc_map) - 1

\* C8: a second clip of the caption and map list produced by a first clip
\* returns the same caption and the same map list.
C8_ClipIdempotent ==
  [][(processor = "coco" /\ calls = 1 /\ epc = "returned" /\ calls' = 2) =>
       (epc' = "returned" /\ element' = element)]_vars

\* C9: for every list of phrase groups with in-range positions,
\* caption_parser returns a phrase-caption list and a phrase-map list that
\* both have one entry per group, in group order, whether or not the groups
\* overlap or cover the caption.
C9_OneOutputPerGroup ==
  LET InRange ==
        \A k \in 1..Len(index_list) : \A i \in 1..Len(index_list[k]) :
          index_list[k][i] < Len(tok_caption) /\ index_list[k][i] < Len(coloc_maps)
  IN
  /\ (InRange /\ ppc # "ready") => ppc = "returned"
  /\ ppc = "returned" =>
       /\ Len(parsed) = 1
       /\ Len(parsed[1].parsed_caption) = Len(index_list)
       /\ Len(parsed[1].parsed_coloc_maps) = Len(index_list)
       /\ \A k \in 1..Len(index_list) :
            /\ Len(parsed[1].parsed_caption[k]) = Len(index_list[k])
            /\ (parsed[1].parsed_coloc_maps[k] = NaN) = (index_list[k] = <<>>)

\* two groups that overlap and leave a token uncovered have been parsed
C9_Witness ==
  /\ ppc = "returned"
  /\ Len(tok_caption) = 2
  /\ index_list = <<<<0>>, <<0, 0>>>>
  /\ Len(parsed[1].parsed_caption) = 2

\* C10: for each phrase group the phrase map is the cell-by-cell arithmetic
\* mean of the token maps at exactly the group's positions (nan for a group
\* without positions) and the phrase caption is the tokens at those
\* positions in the group's order; the output of a group is what
\* caption_parser gives for that group alone.
C10_GroupMeanAndTokens ==
  ppc = "returned" =>
    \A k \in 1..Len(index_list) :
      LET g     == index_list[k]
          n     == Len(g)
          out   == parsed[1].parsed_coloc_maps[k]
          alone == CaptionParser(tok_caption, coloc_maps, <<g>>)
      IN
        /\ parsed[1].parsed_caption[k] = [i \in 1..n |-> tok_caption[g[i] + 1]]
        /\ n = 0 => out = NaN
        /\ n > 0 =>
             /\ Len(out) = Len(coloc_maps[g[1] + 1])
             /\ \A c \in 1..Len(out) :
                  /\ out[c].den > 0
                  /\ out[c].num * n
                       = out[c].den * Sum([i \in 1..n |-> coloc_maps[g[i] + 1][c]])
        /\ parsed[1].parsed_caption[k] = alone.parsed_caption[1]
        /\ out = alone.parsed_coloc_maps[1]

\* a group of two different tokens, overlapped by a second group, was averaged
C10_Witness ==
  /\ ppc = "returned"
  /\ index_list = <<<<1, 0>>, <<1>>>>
  /\ coloc_maps = <<<<0, 2>>, <<1, 0>>>>
  /\ parsed[1].parsed_coloc_maps[1] = <<Frac(1, 2), Frac(1, 1)>>
  /\ parsed[1].parsed_coloc_maps[2] = <<Frac(1, 1), Frac(0, 1)>>

\* how often index i has been delivered in the batches yielded so far
Delivered(i) ==
  Cardinality({<<b, k>> \in (1..Len(batches)) \X (1..MaxBatch) :
                 k <= Len(batches[b]) /\ batches[b][k] = i})

\* C11: with dataset.pad_caption true the loader batches the sampled index
\* set without padding and without dropping the short remainder: every
\* sampled index is delivered in exactly one batch, no batch has more than
\* batch_size indices or an index outside the sampled set, and a set smaller
\* than batch_size comes out as a single batch of exactly those indices.
\* (The batching is the same when the loader shuffles the whole dataset.)
C11_EverySampledIndexInOneBatch ==
  lpc \in {"batching", "done"} =>
    LET sampled == {indices[k] : k \in 1..Len(indices)} IN
    /\ \A b \in 1..Len(batches) :
         /\ Len(batches[b]) >= 1
         /\ Len(batches[b]) <= batch_size
         /\ \A k \in 1..Len(batches[b]) : batches[b][k] \in sampled
    /\ \A i \in 0..(LoaderSize - 1) : i \notin sampled => Delivered(i) = 0
    /\ \A i \in sampled : Delivered(i) <= 1
    /\ lpc = "done" =>
         /\ \A i \in sampled : Delivered(i) = 1
         /\ (Len(indices) >= 1 /\ Len(indices) < batch_size) =>
              /\ Len(batches) = 1
              /\ Len(batches[1]) = Len(indices)

\* a bucket with fewer indices than batch_size came out as one short batch
C11_Witness ==
  /\ pad_caption
  /\ lpc = "done"
  /\ Len(indices) >= 1
  /\ Len(indices) < batch_size
  /\ Len(batches) = 1
  /\ Len(batches[1]) = Len(indices)

\* C12: the two access modes of a GenomeViz object exclude each other and
\* are fixed at construction: __getitem__ returns only when eval_mode is
\* false and, when eval_mode is true, fails its assertion and leaves element
\* and score as they were; loc_eval returns scores only when eval_mode is
\* true and fails without returning any when it is false; no operation
\* changes eval_mode.
C12_ModesExclusive ==
  [][/\ eval_mode' = eval_mode
     /\ gets' = gets + 1 =>
          /\ eval_mode =>
               /\ gerr' = "AssertionError"
               /\ self_element' = self_element
               /\ self_score' = self_score
          /\ gerr' = None => ~eval_mode
     /\ pc' = "done" => eval_mode
     /\ (~eval_mode /\ pc' \in {"done", "raised"}) => (pc' = "raised" /\ ret' = <<>>)
    ]_vars

\* in eval mode loc_eval has returned scores and an indexed access was
\* rejected
C12_Witness ==
  /\ eval_mode
  /\ pc = "done"
  /\ gerr = "AssertionError"
  /\ gets >= 1
  /\ self_element = <<>>

\* without eval mode an indexed access has returned and loc_eval has failed
C12_WitnessIndexed ==
  /\ ~eval_mode
  /\ pc = "raised"
  /\ gerr = None
  /\ gets >= 1
  /\ self_element # <<>>

\* what fetching and processing index i gives on the batch b
OnBatch(b, i) ==
  LET el == [caption |-> b.captions[i], coloc_map |-> b.coloc_maps[i],
             image |-> b.image_tensor[i], processed |-> FALSE]
      out == ProcessElement(el, i)
  IN [index |-> i, status |-> out.status, err |-> out.err, element |-> out.element]

\* C13: a fetch-and-process step leaves the batch's captions, colocalization
\* maps and image tensor unchanged, so after any sequence of steps the step
\* on any index gives what it gives first on the fresh batch.
C13_StepsShareNoState ==
  result # <<>> =>
    /\ captions = fresh.captions
    /\ batch_coloc_maps = fresh.coloc_maps
    /\ image_tensor = fresh.image_tensor
    /\ result[1] = OnBatch(fresh, result[1].index)

====
